---------------------------- MODULE Spec2Model ----------------------------
(***************************************************************************)
(* A model of the notebook                                                 *)
(*   tensorflow_iris_dnn_classifier_using_estimators_elastic_inference_    *)
(*   local.ipynb                                                           *)
(* The notebook's twelve code cells are run once each in document order    *)
(* (Run All); a cell whose code raises stops the run.  The SageMaker SDK,  *)
(* the TensorFlow container and the Elastic Inference (EI) accelerator are *)
(* the environment: every SDK call either returns or raises, and what the  *)
(* notebook's own text says about EI decides when an inference can use it. *)
(* Floating point measurements are kept in tenths (6.4 is 64).             *)
(***************************************************************************)
EXTENDS Integers, Sequences, FiniteSets, TLC

VARIABLES
    training_dir,      \* the sample data: file name -> CSV file
    region,            \* boto3.Session().region_name
    eiAttached,        \* the notebook instance was created with an EI accelerator
    eiFramework,       \* the framework the accelerator is initialised for, or "none"
    eiUsedBy,          \* the frameworks whose inferences used EI since the last boot
    instanceBoots,     \* restarts (or replacements) of the notebook instance
    otherResult,       \* outcome of the last inference of another framework
    accelerator_type,  \* the accelerator_type argument of deploy()
    pc,                \* index in Cells of the next code cell
    status,            \* "running", "error" (a cell raised) or "done"
    exception,         \* the exception the run ended with, or "none"
    sdkRaised,         \* the SDK call that raised, or "none"
    calls,             \* fit/deploy/predict/delete_endpoint invocations, in order
    returned,          \* the operations that have returned
    names,             \* the names bound in the kernel
    iris_estimator,    \* the sagemaker.tensorflow.TensorFlow object, or None
    trainedModel,      \* what fit() trained, or None
    iris_predictor,    \* the predictor deploy() returned, or None
    endpoints,         \* the endpoints that exist
    prediction         \* what predict() returned, or None

vars == <<training_dir, region, eiAttached, eiFramework, eiUsedBy, instanceBoots,
          otherResult, accelerator_type, pc, status, exception, sdkRaised, calls,
          returned, names, iris_estimator, trainedModel, iris_predictor,
          endpoints, prediction>>

envVars == <<training_dir, region, eiAttached, accelerator_type>>
eiVars == <<eiFramework, eiUsedBy, instanceBoots, otherResult>>

\* An unset value is the empty tuple, a set one a 1-tuple.
None == <<>>
Some(v) == <<v>>

---------------------------------------------------------------------------
(* Bounds of the model *)

\* rows of iris_training.csv (the real file holds 120)
MaxTrainRows == 2
\* rows of iris_test.csv (the real file holds 30)
MaxTestRows == 1
\* logits are small integers 0..MaxLogit
MaxLogit == 1
\* restarts of the notebook instance
MaxRestarts == 1

---------------------------------------------------------------------------
(* The data *)

\* One row per species from the table of the data set, in tenths:
\* sepal length, sepal width, petal length, petal width, species.
SampleRows ==
    { <<51, 35, 14, 2, 0>>, <<64, 32, 45, 15, 1>>, <<59, 30, 51, 18, 2>> }

RECURSIVE RowSeqs(_)
RowSeqs(n) ==
    IF n = 0 THEN { <<>> }
    ELSE { Append(s, r) : s \in RowSeqs(n - 1), r \in SampleRows }

\* A CSV file: the header row (n_samples, n_features), then the rows.
CsvFiles(maxRows) ==
    UNION { { << <<n, 4>> >> \o rows : rows \in RowSeqs(n) } : n \in 1..maxRows }

Regions == { "us-east-1", "us-west-2" }

Frameworks == { "tensorflow", "mxnet" }

AcceleratorTypes == { "none", "local_sagemaker_notebook" }

\* The name of the input tensor; the notebook's functions only mention it.
INPUT_TENSOR_NAME == "inputs"

---------------------------------------------------------------------------
(* iris_dnn_classifier.py, as the notebook shows it *)

\* estimator built for one class too many
estimator_four_classes(model_path) ==
    [ feature_columns |-> << [ key |-> INPUT_TENSOR_NAME, shape |-> <<4>> ] >>,
      hidden_units    |-> <<10, 20, 10>>,
      n_classes       |-> 4,
      model_dir       |-> model_path ]

estimator(model_path) ==
    [ feature_columns |-> << [ key |-> INPUT_TENSOR_NAME, shape |-> <<4>> ] >>,
      hidden_units    |-> <<10, 20, 10>>,
      n_classes       |-> 3,
      model_dir       |-> model_path ]

\* load_csv_with_header: the header gives the number of samples; the last
\* column of a row is its target, the columns before it are its features.
load_csv_with_header(file) ==
    LET n_samples == file[1][1]
        row(i)    == file[i + 1]
    IN  [ data   |-> [ i \in 1..n_samples |-> SubSeq(row(i), 1, Len(row(i)) - 1) ],
          target |-> [ i \in 1..n_samples |-> row(i)[Len(row(i))] ] ]

\* train_input_fn loading the test file
train_input_fn_test_file(dir) ==
    LET training_set == load_csv_with_header(dir["iris_test.csv"])
    IN  [ read       |-> { "iris_test.csv" },
          x          |-> [ key |-> INPUT_TENSOR_NAME, value |-> training_set.data ],
          y          |-> training_set.target,
          num_epochs |-> None,
          shuffle    |-> TRUE ]

\* train_input_fn making one pass over the data
train_input_fn_one_epoch(dir) ==
    LET training_set == load_csv_with_header(dir["iris_training.csv"])
    IN  [ read       |-> { "iris_training.csv" },
          x          |-> [ key |-> INPUT_TENSOR_NAME, value |-> training_set.data ],
          y          |-> training_set.target,
          num_epochs |-> Some(1),
          shuffle    |-> TRUE ]

train_input_fn(dir) ==
    LET training_set == load_csv_with_header(dir["iris_training.csv"])
    IN  [ read       |-> { "iris_training.csv" },
          x          |-> [ key |-> INPUT_TENSOR_NAME, value |-> training_set.data ],
          y          |-> training_set.target,
          num_epochs |-> None,
          shuffle    |-> TRUE ]

\* serving_input_fn declaring three features
serving_input_fn_shape3 ==
    [ key |-> INPUT_TENSOR_NAME, dtype |-> "float32", shape |-> <<3>> ]

serving_input_fn ==
    [ key |-> INPUT_TENSOR_NAME, dtype |-> "float32", shape |-> <<4>> ]


---------------------------------------------------------------------------
(* The SDK, the container and the accelerator *)

\* TensorFlow(...) choosing the training instance by the accelerator
TensorFlow_by_accelerator(role) ==
    [ entry_point          |-> "iris_dnn_classifier.py",
      role                 |-> role,
      framework_version    |-> "1.11",
      train_instance_count |-> 1,
      train_instance_type  |-> IF accelerator_type = "none" THEN "local"
                               ELSE accelerator_type,
      training_steps       |-> 1000,
      evaluation_steps     |-> 100 ]

\* sagemaker.tensorflow.TensorFlow(...)
TensorFlow(role) ==
    [ entry_point          |-> "iris_dnn_classifier.py",
      role                 |-> role,
      framework_version    |-> "1.11",
      train_instance_count |-> 1,
      train_instance_type  |-> "local",
      training_steps       |-> 1000,
      evaluation_steps     |-> 100 ]

train_data_location(r) ==
    << "s3://sagemaker-sample-data-", r, "/tensorflow/iris" >>

\* numpy_input_fn is called without batch_size: its default, 128 examples a step
batch_size == 128

\* The examples the input pipeline yields: endless with num_epochs=None,
\* num_epochs passes over the rows otherwise.
Examples(input) ==
    IF input.num_epochs = None THEN None
    ELSE Some(input.num_epochs[1] * Len(input.y))

\* One turn of the training loop: it ends the loop when the step limit is
\* reached or when the pipeline has run out of examples, and takes a batch
\* for one more step otherwise.
TrainStep(st, max_steps) ==
    IF st.stopped # "no" THEN st
    ELSE IF st.steps = max_steps THEN [ st EXCEPT !.stopped = "max_steps" ]
    ELSE IF st.examples # None /\ st.examples[1] = 0
         THEN [ st EXCEPT !.stopped = "OutOfRange" ]
    ELSE [ st EXCEPT !.steps = st.steps + 1,
                     !.examples = IF st.examples = None THEN None
                                  ELSE IF st.examples[1] <= batch_size THEN Some(0)
                                  ELSE Some(st.examples[1] - batch_size) ]

\* n turns of the loop from st (halved, to keep the evaluation shallow).
RECURSIVE TrainTurns(_, _, _)
TrainTurns(st, max_steps, n) ==
    IF n = 0 THEN st
    ELSE IF n = 1 THEN TrainStep(st, max_steps)
    ELSE LET half == TrainTurns(st, max_steps, n \div 2)
         IN  IF half.stopped # "no" THEN half
             ELSE TrainTurns(half, max_steps, n - (n \div 2))

\* The training loop, run until it stops: max_steps steps and the turn that
\* sees the limit at most.
TrainLoop(max_steps, examples) ==
    TrainTurns([ steps |-> 0, stopped |-> "no", examples |-> examples ],
               max_steps, max_steps + 1)

\* What iris_estimator.fit(inputs) leaves behind: the container runs the entry
\* point's estimator, train_input_fn and serving_input_fn on the data, for
\* training_steps steps at most.
fit(est, inputs, dir) ==
    LET input == train_input_fn(dir)
        loop  == TrainLoop(est.training_steps, Examples(input))
    IN  [ job     |-> est,
          inputs  |-> inputs,
          model   |-> estimator("model_path"),
          input   |-> input,
          serving |-> serving_input_fn,
          steps   |-> loop.steps,
          stopped |-> loop.stopped ]

\* The keyword arguments of iris_estimator.deploy(...)
deploy_args(accel) ==
    [ initial_instance_count |-> 1,
      instance_type          |-> "local",
      accelerator_type       |-> accel ]

\* The vector the notebook classifies, [6.4, 3.2, 4.5, 1.5]
predict_input == <<64, 32, 45, 15>>

\* The serving input receiver parses a request of the declared shape only.
ServingAccepts(model, request) ==
    Len(request) = model.serving.shape[1]

\* The classifier reads the tensor under its feature column's key.
ModelAccepts(model, request) ==
    /\ model.model.feature_columns[1].key = model.serving.key
    /\ Len(request) = model.model.feature_columns[1].shape[1]

\* The index of the first greatest logit, from 0.
ArgMax(logits) ==
    (CHOOSE i \in 1..Len(logits) :
        /\ \A j \in 1..Len(logits) : logits[j] <= logits[i]
        /\ \A j \in 1..(i - 1) : logits[j] < logits[i]) - 1

\* EIUsable without the check that an accelerator is attached
EIUsable_unattached(attached, bound, f) ==
    bound \in { "none", f }

\* EIUsable without the check of the framework the accelerator is bound to
EIUsable_any_framework(attached, bound, f) ==
    attached

\* An accelerator can serve framework f when one is attached and it is not
\* initialised for another framework.
EIUsable(attached, bound, f) ==
    attached /\ bound \in { "none", f }

\* The accelerator initialises for the first framework that uses it.
EIBind(bound, f) ==
    IF bound = "none" THEN f ELSE bound

\* delete_endpoint leaving the endpoint in place
delete_endpoint_noop(eps, name) ==
    eps

\* iris_predictor.delete_endpoint()
delete_endpoint(eps, name) ==
    eps \ { name }

---------------------------------------------------------------------------
(* The notebook *)

Cells ==
    << "setup", "setup_sh", "cat_script", "def_estimator", "def_train_input_fn",
       "def_serving_input_fn", "TensorFlow", "fit", "deploy", "predict",
       "print_endpoint", "delete_endpoint" >>

\* A statement of a cell: the global names it evaluates at the top level, the
\* names it binds, the global names it calls, the global names its function
\* body mentions (a def), and the SDK call it makes.
Stmt(uses, binds, sdk) ==
    [ uses |-> uses, binds |-> binds, calls |-> {}, body |-> {}, sdk |-> sdk ]

Def(f, body) ==
    [ uses |-> {}, binds |-> { f }, calls |-> {}, body |-> body, sdk |-> "none" ]

\* the cell of def estimator, calling estimator once it is defined
def_estimator_cell_calling ==
    << Def("estimator", { "tf", "INPUT_TENSOR_NAME" }),
       [ uses |-> { "estimator" }, binds |-> {}, calls |-> { "estimator" },
         body |-> {}, sdk |-> "none" ] >>

\* def estimator(model_path, hyperparameters): ...
def_estimator_cell ==
    << Def("estimator", { "tf", "INPUT_TENSOR_NAME" }) >>

\* The statements of each code cell.
CellCode(cell) ==
    CASE cell = "setup" ->
           << Stmt({}, { "sagemaker" }, "none"),
              Stmt({ "sagemaker" }, { "sagemaker_session" }, "Session"),
              Stmt({ "sagemaker_session" }, { "bucket" }, "default_bucket"),
              Stmt({}, { "prefix" }, "none"),
              Stmt({ "sagemaker" }, { "role" }, "get_execution_role") >>
      [] cell \in { "setup_sh", "cat_script" } -> <<>>
      [] cell = "def_estimator" -> def_estimator_cell
      [] cell = "def_train_input_fn" ->
           << Def("train_input_fn", { "tf", "os", "np", "INPUT_TENSOR_NAME" }) >>
      [] cell = "def_serving_input_fn" ->
           << Def("serving_input_fn", { "tf", "INPUT_TENSOR_NAME" }) >>
      [] cell = "TensorFlow" ->
           << Stmt({}, { "TensorFlow" }, "none"),
              [ uses |-> { "TensorFlow", "role" }, binds |-> { "iris_estimator" },
                calls |-> { "TensorFlow" }, body |-> {}, sdk |-> "TensorFlow" ] >>
      [] cell = "fit" ->
           << Stmt({}, { "boto3" }, "none"),
              Stmt({ "boto3" }, { "region" }, "none"),
              Stmt({ "region" }, { "train_data_location" }, "none"),
              Stmt({ "iris_estimator", "train_data_location" }, {}, "fit") >>
      [] cell = "deploy" ->
           << Stmt({ "iris_estimator" }, { "iris_predictor" }, "deploy") >>
      [] cell = "predict" ->
           << Stmt({ "iris_predictor" }, {}, "predict") >>
      [] cell = "print_endpoint" ->
           << Stmt({ "iris_predictor" }, {}, "none") >>
      [] cell = "delete_endpoint" ->
           << Stmt({}, { "sagemaker" }, "none"),
              Stmt({ "iris_predictor" }, {}, "delete_endpoint") >>

\* The global names the body of function f mentions, from its def.
FunctionBody(f) ==
    UNION { UNION { CellCode(Cells[c])[k].body :
                      k \in { j \in DOMAIN CellCode(Cells[c]) :
                                f \in CellCode(Cells[c])[j].binds } } :
              c \in 1..Len(Cells) }

\* The names a statement looks up: those of its top level and those of the
\* bodies of the functions it calls.
Evaluated(stmt) ==
    stmt.uses \cup UNION { FunctionBody(f) : f \in stmt.calls }

\* The names that the first statement of code[k..] to fail on an undefined
\* name looks up in vain, with the names of bound defined; {} when none fails.
RECURSIVE Undefined(_, _, _)
Undefined(code, k, bound) ==
    IF k > Len(code) THEN {}
    ELSE IF Evaluated(code[k]) \ bound # {} THEN Evaluated(code[k]) \ bound
    ELSE Undefined(code, k + 1, bound \cup code[k].binds)

\* The names a cell has bound when its SDK call failed raises ("none": when
\* the cell returns): an assignment binds after its right-hand side returned.
Bound(cell, failed) ==
    LET code == CellCode(cell)
        upto == IF \E k \in DOMAIN code : code[k].sdk = failed /\ failed # "none"
                THEN (CHOOSE k \in DOMAIN code : code[k].sdk = failed) - 1
                ELSE Len(code)
    IN  UNION { code[k].binds : k \in 1..upto }

\* Cells run in document order.
NextCell(c) ==
    c + 1

\* a cell that catches the exception and goes on
Uncaught_swallowed(call) ==
    [ status |-> "running", exception |-> "none" ]

\* a cell that replaces the exception by its own
Uncaught_wrapped(call) ==
    [ status |-> "error", exception |-> "RuntimeError" ]

\* No cell has a try/except: an exception ends the run as it was raised.
Uncaught(call) ==
    [ status |-> "error", exception |-> call ]

AtCell(name) ==
    /\ status = "running"
    /\ pc \in 1..Len(Cells)
    /\ Cells[pc] = name

Raises(call) ==
    /\ sdkRaised' = call
    /\ status' = Uncaught(call).status
    /\ exception' = Uncaught(call).exception
    /\ pc' = IF status' = "error" THEN pc ELSE NextCell(pc)

\* A cell whose statements find their names returns and the next cell runs;
\* a statement that looks up an undefined name raises NameError.
Returns ==
    IF Undefined(CellCode(Cells[pc]), 1, names) = {}
    THEN /\ pc' = NextCell(pc)
         /\ status' = IF pc' > Len(Cells) THEN "done" ELSE "running"
         /\ UNCHANGED <<exception, sdkRaised>>
    ELSE Raises("NameError")

Init ==
    /\ training_dir \in
         { [ f \in { "iris_training.csv", "iris_test.csv" } |->
               IF f = "iris_training.csv" THEN tr ELSE te ] :
             tr \in CsvFiles(MaxTrainRows), te \in CsvFiles(MaxTestRows) }
    /\ region \in Regions
    /\ eiAttached \in BOOLEAN
    /\ eiFramework \in (IF eiAttached THEN { "none" } \cup Frameworks ELSE { "none" })
    /\ eiUsedBy = IF eiFramework = "none" THEN {} ELSE { eiFramework }
    /\ instanceBoots = 0
    /\ otherResult = "none"
    /\ accelerator_type \in AcceleratorTypes
    /\ pc = 1
    /\ status = "running"
    /\ exception = "none"
    /\ sdkRaised = "none"
    /\ calls = <<>>
    /\ returned = {}
    /\ names = {}
    /\ iris_estimator = None
    /\ trainedModel = None
    /\ iris_predictor = None
    /\ endpoints = {}
    /\ prediction = None

\* import sagemaker; Session(); default_bucket(); get_execution_role()
Setup ==
    /\ AtCell("setup")
    /\ \E failed \in { "none", "Session", "default_bucket", "get_execution_role" } :
         /\ names' = names \cup Bound("setup", failed)
         /\ IF failed = "none" THEN Returns ELSE Raises(failed)
    /\ UNCHANGED <<envVars, eiVars, calls, returned, iris_estimator, trainedModel,
                   iris_predictor, endpoints, prediction>>

\* !/bin/bash ./setup.sh and !cat "iris_dnn_classifier.py": a shell command's
\* exit status raises nothing.
ShellCell ==
    /\ AtCell("setup_sh") \/ AtCell("cat_script")
    /\ Returns
    /\ UNCHANGED <<envVars, eiVars, calls, returned, names, iris_estimator,
                   trainedModel, iris_predictor, endpoints, prediction>>

\* def estimator / def train_input_fn / def serving_input_fn
DefCell ==
    /\ \E f \in { "estimator", "train_input_fn", "serving_input_fn" } :
         /\ AtCell("def_estimator") => f = "estimator"
         /\ AtCell("def_train_input_fn") => f = "train_input_fn"
         /\ AtCell("def_serving_input_fn") => f = "serving_input_fn"
         /\ \/ AtCell("def_estimator")
            \/ AtCell("def_train_input_fn")
            \/ AtCell("def_serving_input_fn")
         /\ names' = names \cup Bound(Cells[pc], "none")
    /\ Returns
    /\ UNCHANGED <<envVars, eiVars, calls, returned, iris_estimator, trainedModel,
                   iris_predictor, endpoints, prediction>>

\* from sagemaker.tensorflow import TensorFlow; iris_estimator = TensorFlow(...)
Construct ==
    /\ AtCell("TensorFlow")
    /\ \E ok \in BOOLEAN :
         IF ok
         THEN /\ iris_estimator' = Some(TensorFlow("role"))
              /\ names' = names \cup Bound("TensorFlow", "none")
              /\ Returns
         ELSE /\ names' = names \cup Bound("TensorFlow", "TensorFlow")
              /\ Raises("TensorFlow")
              /\ UNCHANGED iris_estimator
    /\ UNCHANGED <<envVars, eiVars, calls, returned, trainedModel, iris_predictor,
                   endpoints, prediction>>

\* import boto3; region = ...; train_data_location = ...; iris_estimator.fit(...)
Fit ==
    /\ AtCell("fit")
    /\ names' = names \cup Bound("fit", "fit")
    /\ calls' = Append(calls, [ op  |-> "fit",
                                on  |-> iris_estimator,
                                arg |-> train_data_location(region) ])
    /\ \E ok \in (IF iris_estimator = None THEN { FALSE } ELSE BOOLEAN) :
         IF ok
         THEN /\ trainedModel' = Some(fit(iris_estimator[1],
                                          train_data_location(region), training_dir))
              /\ returned' = returned \cup { "fit" }
              /\ Returns
         ELSE /\ Raises("fit")
              /\ UNCHANGED <<trainedModel, returned>>
    /\ UNCHANGED <<envVars, eiVars, iris_estimator, iris_predictor, endpoints,
                   prediction>>

\* iris_predictor = iris_estimator.deploy(...)
Deploy ==
    /\ AtCell("deploy")
    /\ calls' = Append(calls, [ op  |-> "deploy",
                                on  |-> iris_estimator,
                                arg |-> deploy_args(accelerator_type) ])
    /\ \E ok \in (IF trainedModel = None THEN { FALSE } ELSE BOOLEAN) :
         IF ok
         THEN /\ iris_predictor' = Some([ endpoint |-> "iris-endpoint",
                                          model    |-> trainedModel[1],
                                          args     |-> deploy_args(accelerator_type) ])
              /\ endpoints' = endpoints \cup { "iris-endpoint" }
              /\ names' = names \cup Bound("deploy", "none")
              /\ returned' = returned \cup { "deploy" }
              /\ Returns
         ELSE /\ Raises("deploy")
              /\ UNCHANGED <<iris_predictor, endpoints, names, returned>>
    /\ UNCHANGED <<envVars, eiVars, iris_estimator, trainedModel, prediction>>

\* Whether the endpoint can answer a TensorFlow inference.
CanServe(p) ==
    /\ p.endpoint \in endpoints
    /\ ServingAccepts(p.model, predict_input)
    /\ p.args.accelerator_type = "local_sagemaker_notebook" =>
         EIUsable(eiAttached, eiFramework, "tensorflow")

\* iris_predictor.predict([6.4, 3.2, 4.5, 1.5])
Predict ==
    /\ AtCell("predict")
    /\ calls' = Append(calls, [ op  |-> "predict",
                                on  |-> iris_predictor,
                                arg |-> predict_input ])
    /\ \E ok \in (IF iris_predictor # None /\ CanServe(iris_predictor[1])
                  THEN BOOLEAN ELSE { FALSE }) :
         IF ok
         THEN LET p == iris_predictor[1]
                  ei == p.args.accelerator_type = "local_sagemaker_notebook"
              IN  /\ \E logits \in [ 1..p.model.model.n_classes -> 0..MaxLogit ] :
                       prediction' =
                         Some(IF ModelAccepts(p.model, predict_input)
                              THEN ArgMax(logits) ELSE -1)
                  /\ eiFramework' =
                       IF ei THEN EIBind(eiFramework, "tensorflow") ELSE eiFramework
                  /\ eiUsedBy' = IF ei THEN eiUsedBy \cup { "tensorflow" } ELSE eiUsedBy
                  /\ returned' = returned \cup { "predict" }
                  /\ Returns
         ELSE /\ Raises("predict")
              /\ UNCHANGED <<prediction, eiFramework, eiUsedBy, returned>>
    /\ UNCHANGED <<envVars, instanceBoots, otherResult, names, iris_estimator,
                   trainedModel, iris_predictor, endpoints>>

\* print(iris_predictor.endpoint)
PrintEndpoint ==
    /\ AtCell("print_endpoint")
    /\ Returns
    /\ UNCHANGED <<envVars, eiVars, calls, returned, names, iris_estimator,
                   trainedModel, iris_predictor, endpoints, prediction>>

\* import sagemaker; iris_predictor.delete_endpoint()
DeleteEndpoint ==
    /\ AtCell("delete_endpoint")
    /\ calls' = Append(calls, [ op  |-> "delete_endpoint",
                                on  |-> iris_predictor,
                                arg |-> <<>> ])
    /\ \E ok \in (IF iris_predictor = None THEN { FALSE } ELSE BOOLEAN) :
         IF ok
         THEN /\ endpoints' = delete_endpoint(endpoints, iris_predictor[1].endpoint)
              /\ returned' = returned \cup { "delete_endpoint" }
              /\ Returns
         ELSE /\ Raises("delete_endpoint")
              /\ UNCHANGED <<endpoints, returned>>
    /\ names' = names \cup Bound("delete_endpoint", "delete_endpoint")
    /\ UNCHANGED <<envVars, eiVars, iris_estimator, trainedModel,
                   iris_predictor, prediction>>

Next ==
    \/ Setup
    \/ ShellCell
    \/ DefCell
    \/ Construct
    \/ Fit
    \/ Deploy
    \/ Predict
    \/ PrintEndpoint
    \/ DeleteEndpoint

Spec == Init /\ [][Next]_vars

---------------------------------------------------------------------------
(* The notebook instance over its lifetime *)

\* Another notebook of the instance runs an inference of another framework
\* against the accelerator; only one local notebook runs at a time.
OtherFrameworkInference ==
    /\ status # "running" \/ pc = 1
    /\ \E f \in Frameworks \ { "tensorflow" } :
         IF EIUsable(eiAttached, eiFramework, f)
         THEN /\ eiFramework' = EIBind(eiFramework, f)
              /\ eiUsedBy' = eiUsedBy \cup { f }
              /\ otherResult' = "ei"
         ELSE /\ otherResult' = "failed"
              /\ UNCHANGED <<eiFramework, eiUsedBy>>
    /\ UNCHANGED <<envVars, instanceBoots, pc, status, exception, sdkRaised, calls,
                   returned, names, iris_estimator, trainedModel, iris_predictor,
                   endpoints, prediction>>

\* The instance is restarted (or replaced by a new one with the same EI): the
\* accelerator is uninitialised again, the kernel and the local containers are gone.
RestartInstance ==
    /\ instanceBoots < MaxRestarts
    /\ instanceBoots' = instanceBoots + 1
    /\ eiFramework' = "none"
    /\ eiUsedBy' = {}
    /\ otherResult' = "none"
    /\ pc' = 1
    /\ status' = "running"
    /\ exception' = "none"
    /\ sdkRaised' = "none"
    /\ calls' = <<>>
    /\ returned' = {}
    /\ names' = {}
    /\ iris_estimator' = None
    /\ trainedModel' = None
    /\ iris_predictor' = None
    /\ endpoints' = {}
    /\ prediction' = None
    /\ UNCHANGED envVars

NextEI ==
    \/ Next
    \/ OtherFrameworkInference
    \/ RestartInstance

SpecEI == Init /\ [][NextEI]_vars

---------------------------------------------------------------------------
(* Properties *)

FixedOrder == << "fit", "deploy", "predict", "delete_endpoint" >>

Invoked(op) == \E i \in 1..Len(calls) : calls[i].op = op

LSN == "local_sagemaker_notebook"

\* C1: the SDK operations are invoked in the order fit, deploy, predict,
\* delete_endpoint, each at most once, each only after every earlier one has
\* returned, and predict and delete_endpoint only on the predictor that a
\* completed deploy of the fitted estimator returned.
C1_LinearOrder ==
    /\ \A i \in 1..Len(calls) :
         /\ i <= Len(FixedOrder)
         /\ calls[i].op = FixedOrder[i]
         /\ \A j \in 1..(i - 1) : FixedOrder[j] \in returned
         /\ calls[i].op \in { "predict", "delete_endpoint" } =>
              /\ calls[i].on # None
              /\ calls[i].on = iris_predictor
              /\ calls[i].on[1].endpoint = "iris-endpoint"
              /\ trainedModel # None
              /\ calls[i].on[1].model = trainedModel[1]
    /\ returned \subseteq { calls[i].op : i \in 1..Len(calls) }

C1_Witness ==
    /\ status = "done"
    /\ Len(calls) = 4
    /\ returned = { "fit", "deploy", "predict", "delete_endpoint" }

\* C2: when an SDK call raises, the run ends in the error state carrying that
\* very exception, at the cell that raised, and no step follows.
C2_UncaughtFailure ==
    [][ sdkRaised' # "none" =>
          /\ status' = "error"
          /\ exception' = sdkRaised'
          /\ pc' = pc
          /\ sdkRaised # "none" => UNCHANGED vars ]_vars

C2_Witness ==
    /\ status = "error"
    /\ sdkRaised = "fit"
    /\ exception = "fit"
    /\ Cells[pc] = "fit"

C5_FourComponents ==
    /\ trainedModel # None =>
         LET m == trainedModel[1]
         IN  /\ m.model.feature_columns[1].shape = <<4>>
             /\ m.serving.shape = <<4>>
             /\ m.model.feature_columns[1].key = INPUT_TENSOR_NAME
             /\ m.serving.key = INPUT_TENSOR_NAME
             /\ m.input.x.key = INPUT_TENSOR_NAME
             /\ \A i \in DOMAIN m.input.x.value : Len(m.input.x.value[i]) = 4
    /\ \A i \in 1..Len(calls) : calls[i].op = "predict" => Len(calls[i].arg) = 4
    /\ Invoked("predict") /\ status # "error" => prediction # None
    /\ prediction # None => prediction[1] >= 0

C5_Witness ==
    /\ "predict" \in returned
    /\ prediction # None
    /\ Len(calls[3].arg) = 4

\* C6: the classifier has 3 target classes, the training labels are in
\* {0, 1, 2}, and so is every class predict() returns.
C6_ThreeClasses ==
    /\ trainedModel # None =>
         /\ trainedModel[1].model.n_classes = 3
         /\ \A i \in DOMAIN trainedModel[1].input.y :
              trainedModel[1].input.y[i] \in { 0, 1, 2 }
    /\ prediction # None => prediction[1] \in { 0, 1, 2 }

C6_Witness ==
    /\ prediction = Some(2)
    /\ \E i \in DOMAIN trainedModel[1].input.y : trainedModel[1].input.y[i] = 2

C10_TrainingUnchanged ==
    /\ iris_estimator # None =>
         iris_estimator[1] =
           [ entry_point          |-> "iris_dnn_classifier.py",
             role                 |-> "role",
             framework_version    |-> "1.11",
             train_instance_count |-> 1,
             train_instance_type  |-> "local",
             training_steps       |-> 1000,
             evaluation_steps     |-> 100 ]
    /\ trainedModel # None =>
         LET m    == trainedModel[1]
             file == training_dir["iris_training.csv"]
         IN  /\ m.job = iris_estimator[1]
             /\ m.inputs = << "s3://sagemaker-sample-data-", region, "/tensorflow/iris" >>
             /\ m.model = [ feature_columns |-> << [ key |-> "inputs", shape |-> <<4>> ] >>,
                            hidden_units    |-> <<10, 20, 10>>,
                            n_classes       |-> 3,
                            model_dir       |-> "model_path" ]
             /\ m.serving = [ key |-> "inputs", dtype |-> "float32", shape |-> <<4>> ]
             /\ m.steps = 1000
             /\ m.input.read = { "iris_training.csv" }
             /\ m.input.y = [ i \in 1..(Len(file) - 1) |-> file[i + 1][5] ]
    /\ \A i \in 1..Len(calls) :
         /\ calls[i].op = "fit" =>
              calls[i].arg = << "s3://sagemaker-sample-data-", region, "/tensorflow/iris" >>
         /\ calls[i].op = "deploy" =>
              calls[i].arg = [ initial_instance_count |-> 1,
                               instance_type          |-> "local",
                               accelerator_type       |-> accelerator_type ]
    /\ iris_predictor # None => iris_predictor[1].model = trainedModel[1]

C10_Witness ==
    /\ accelerator_type = "none"
    /\ ~eiAttached
    /\ "deploy" \in returned
    /\ prediction # None

\* C11: training ends: the input pipeline never runs out of data
\* (num_epochs=None), so fit() stops because of the step limit only, after
\* exactly training_steps = 1000 steps, and returns, after which the deploy
\* cell is the one to run.
C11_TrainingTerminates ==
    /\ "fit" \in returned =>
         /\ trainedModel # None
         /\ trainedModel[1].input.num_epochs = None
         /\ trainedModel[1].stopped = "max_steps"
         /\ trainedModel[1].steps = 1000
         /\ trainedModel[1].steps = iris_estimator[1].training_steps
    /\ (status = "running" /\ pc \in 1..Len(Cells) /\ Cells[pc] = "deploy") =>
         ("fit" \in returned /\ ENABLED Deploy)

C11_Witness ==
    /\ status = "running"
    /\ Cells[pc] = "deploy"
    /\ "fit" \in returned
    /\ trainedModel[1].steps = 1000
    /\ Len(trainedModel[1].input.y) = 2

\* C12: every name a cell evaluates at its top level has been bound by that
\* cell or an earlier one; tf, np, os and INPUT_TENSOR_NAME, which no cell
\* binds, are mentioned in the bodies of estimator, train_input_fn and
\* serving_input_fn only, which no cell calls; no cell raises NameError.
C12_NoUndefinedName ==
    LET unbound == { "tf", "np", "os", "INPUT_TENSOR_NAME" }
        defs    == { "estimator", "train_input_fn", "serving_input_fn" }
    IN  /\ (status = "running" /\ pc \in 1..Len(Cells)) =>
             Undefined(CellCode(Cells[pc]), 1, names) = {}
        /\ exception # "NameError"
        /\ sdkRaised # "NameError"
        /\ names \cap unbound = {}
        /\ \A c \in 1..Len(Cells) : c < pc =>
             \A k \in DOMAIN CellCode(Cells[c]) :
               LET stmt == CellCode(Cells[c])[k]
               IN  /\ stmt.uses \cap unbound = {}
                   /\ stmt.calls \cap defs = {}
                   /\ stmt.uses \cap defs = {}
                   /\ stmt.body # {} => stmt.binds \subseteq defs
        /\ status = "done" =>
             /\ defs \subseteq names
             /\ \A f \in defs : FunctionBody(f) \cap unbound # {}

C12_Witness ==
    /\ status = "done"
    /\ { "sagemaker", "role", "TensorFlow", "iris_estimator", "boto3", "region",
         "train_data_location", "iris_predictor", "estimator", "train_input_fn",
         "serving_input_fn" } \subseteq names
    /\ exception = "none"

============================================================================
